---- MODULE Spec2Model ----
(***************************************************************************)
(* State-machine model of tensorflow_datasets.core:                        *)
(*   - download/checksums_management.py : the URL checksum registry        *)
(*   - dataset_builder.py               : DatasetBuilder and               *)
(*                                        GeneratorBasedBuilder            *)
(***************************************************************************)
EXTENDS Integers, Sequences, FiniteSets, TLC

(***************************************************************************)
(* Part I.  The checksum registry (checksums_management.py)                *)
(***************************************************************************)

\* Bounds of the registry model.
NumUrls == 2
NumValues == 2
MaxNewEntries == 1

\* A URL is a string that may hold spaces: it is modelled as the sequence of
\* its space-separated words.  UrlPool lists the URLs in ascending string order
\* ("a" < "a b" < "b": a proper prefix sorts first, ' ' sorts before letters).
UrlPool == << <<"a">>, <<"a", "b">>, <<"b">>, <<"b", "a">> >>

Urls == {UrlPool[i] : i \in 1..NumUrls}

\* A (size, checksum) pair: an int and a string without spaces.
ValuePool == << <<1, "x">>, <<2, "y">>, <<1, "y">> >>

Values == {ValuePool[i] : i \in 1..NumValues}

\* A Python dict {url: (size, checksum)} is a function on a set of URLs.
EmptyDict == <<>>

Dicts == UNION {[S -> Values] : S \in SUBSET Urls}

\* dict.update: d.update(e).
DictUpdate(d, e) ==
  [u \in (DOMAIN d) \cup (DOMAIN e) |-> IF u \in DOMAIN e THEN e[u] ELSE d[u]]

_ROOT_DIR == "tensorflow_datasets"

_CHECKSUM_DIRS == << <<_ROOT_DIR, "url_checksums">> >>

_CHECKSUM_SUFFIX == ".txt"

\* Dataset names used by callers.
Datasets == {"d1", "d2"}

\* A file path is <<directory, stem, suffix>>.  The files that may exist: one
\* checksum file per dataset directly in the checksum directory.
AllPaths == {<<_CHECKSUM_DIRS[1], ds, _CHECKSUM_SUFFIX>> : ds \in Datasets}

\* String order of two URLs (lexicographic on words; a proper prefix is less).
WordRank(w) == IF w = "a" THEN 1 ELSE 2

RECURSIVE UrlLess(_, _)
UrlLess(u, v) ==
  IF v = <<>> THEN FALSE
  ELSE IF u = <<>> THEN TRUE
  ELSE IF WordRank(Head(u)) # WordRank(Head(v))
       THEN WordRank(Head(u)) < WordRank(Head(v))
       ELSE UrlLess(Tail(u), Tail(v))

\* sorted(new_data.items()): the URLs of S in ascending order.
RECURSIVE SortedUrls(_)
SortedUrls(S) ==
  IF S = {} THEN <<>>
  ELSE LET m == CHOOSE u \in S : \A v \in S \ {u} : UrlLess(u, v)
       IN  <<m>> \o SortedUrls(S \ {m})

\* '%s %s %s\n' % (url, size, checksum): one line, as its sequence of
\* space-separated tokens.
FormatLine(url, value) == url \o <<value[1], value[2]>>

\* The file written by maybe_store_checksums: one line per URL, sorted by URL.
FormatLinesSorted(d) ==
  LET order == SortedUrls(DOMAIN d)
  IN  [i \in 1..Len(order) |-> FormatLine(order[i], d[order[i]])]

\* The file opened in append mode: the new lines follow the old content.
FormatFileAppend(old, d) == old \o FormatLinesSorted(d)

FormatFile(old, d) == FormatLinesSorted(d)

\* line.rsplit(' ', 2): the last two tokens are size and checksum, the rest
\* is the URL.
LineUrl(line) == SubSeq(line, 1, Len(line) - 2)

LineValue(line) == <<line[Len(line) - 1], line[Len(line)]>>

\* The body of _get_sizes_checksums: empty lines are skipped, a later line
\* for a URL overrides an earlier one.
RECURSIVE ParseLines(_, _)
ParseLines(lines, acc) ==
  IF lines = <<>> THEN acc
  ELSE LET line == Head(lines)
       IN  IF line = <<>>
           THEN ParseLines(Tail(lines), acc)
           ELSE ParseLines(Tail(lines),
                           DictUpdate(acc, [u \in {LineUrl(line)} |-> LineValue(line)]))

ParseFile(lines) == ParseLines(lines, EmptyDict)

NoFile == [exists |-> FALSE, lines |-> <<>>]

File(lines) == [exists |-> TRUE, lines |-> lines]

NoMemo == [set |-> FALSE, val |-> <<>>]

Memo(v) == [set |-> TRUE, val |-> v]

VARIABLES
  fs,                    \* the checksum files on disk: path -> file
  _REGISTER_CHECKSUMS,   \* the registration-mode flag
  _ALL_SIZE_CHECKSUMS,   \* the global dict url -> (size, checksum)
  dataset2pathMemo,      \* memo of _get_dataset_to_path()
  sizesMemo,             \* memo of _get_sizes_checksums(path), per path
  allMemo,               \* whether get_all_sizes_checksums() is memoized
  recorded,              \* history: per dataset, the URLs in its file when it
                         \* was first there and those recorded since by
                         \* successful calls in registration mode
  last                   \* history: the last operation and its outcome

csVars == <<fs, _REGISTER_CHECKSUMS, _ALL_SIZE_CHECKSUMS, dataset2pathMemo,
            sizesMemo, allMemo, recorded, last>>

\* The state of the dataset builders (Part II).
VARIABLES
  disk,              \* the directories under builder_data_dir
  split_generators,  \* what _split_generators returns for this dataset
  version,           \* builder -> its code-declared version (self._version)
  _data_dir,         \* builder -> self._data_dir
  pc,                \* builder -> where its download_and_prepare call stands
  run,               \* builder -> number of download_and_prepare calls made
  mode,              \* builder -> download_mode of its last call
  dl_manager,        \* builder -> whether its last call made a DownloadManager
  unit,              \* builder -> index of the next SplitGenerator
  split_dict,        \* builder -> the SplitDict local to _download_and_prepare
  info_splits,       \* builder -> self.info.splits
  error,             \* builder -> the exception its last call raised
  asResult           \* builder -> the outcome of its last as_dataset call

bVars == <<disk, split_generators, version, _data_dir, pc, run, mode, dl_manager,
           unit, split_dict, info_splits, error, asResult>>

\* The state of one run of generator_fn (Part III).
VARIABLES
  max_examples_per_split,  \* the cap handed to _download_and_prepare, or None
  num_examples,            \* how many examples _generate_examples yields
  gen_i,                   \* the index i of enumerate()
  encoded,                 \* how many encoded examples went to the shard writer
  gen_pc                   \* "running", "break" or "exhausted"

gVars == <<max_examples_per_split, num_examples, gen_i, encoded, gen_pc>>

\* The construction of a builder (Part IV).
VARIABLES
  BUILDER_CONFIGS,  \* the class attribute: a list of BuilderConfig
  VERSION,          \* the class attribute: a version or None
  config,           \* the config argument of __init__
  listing,          \* the names in builder_data_dir, or that it is absent
  built             \* the outcome of __init__

kVars == <<BUILDER_CONFIGS, VERSION, config, listing, built>>

\* One call of _slice_split_info_to_instruction_dicts (Part V).
VARIABLES
  list_sliced_split_info,  \* the argument
  row_count,               \* the number of rows each shard file holds
  instruction_dicts        \* the result, or NotCalled

rVars == <<list_sliced_split_info, row_count, instruction_dicts>>

\* One SplitGenerator whose generator is shared between splits (Part VI).
VARIABLES
  shared_split_info_list,  \* split_generator.split_info_list
  writer_files,            \* the output_files handed to write_from_generator
  shard_examples,          \* per output file, the indices of the examples it
                           \* holds, in the order they were written
  yielded,                 \* how many examples generator_fn has yielded
  writer_pc                \* "call", "writing" or "done"

wVars == <<shared_split_info_list, writer_files, shard_examples, yielded,
           writer_pc>>

xVars == <<gVars, kVars, rVars, wVars>>

vars == <<csVars, bVars, xVars>>

PathOf(ds) == <<_CHECKSUM_DIRS[1], ds, _CHECKSUM_SUFFIX>>

\* The body of _get_dataset_to_path: the files directly in a checksum
\* directory whose name ends with the suffix, keyed by the name without it.
ScanChecksumDirs(files) ==
  LET found == {p \in DOMAIN files :
                  /\ files[p].exists
                  /\ \E i \in 1..Len(_CHECKSUM_DIRS) : p[1] = _CHECKSUM_DIRS[i]
                  /\ p[3] = _CHECKSUM_SUFFIX}
  IN  [name \in {p[2] : p \in found} |-> CHOOSE p \in found : p[2] = name]

\* _get_dataset_to_path without utils.memoize(): every call scans again.
_get_dataset_to_path_rescanning(memo, files) == ScanChecksumDirs(files)

\* utils.memoize(): the first result is kept and returned ever after.
_get_dataset_to_path(memo, files) ==
  IF memo.set THEN memo.val ELSE ScanChecksumDirs(files)

_get_sizes_checksums(memo, files, path) ==
  IF memo[path].set THEN memo[path].val ELSE ParseFile(files[path].lines)

\* Initial file contents: hand-written files, any line order, blank lines.
InitialFiles ==
  {NoFile, File(<<>>)}
    \cup {File(<<FormatLine(UrlPool[1], ValuePool[1])>>)}
    \cup {File(<<FormatLine(UrlPool[2], ValuePool[1]), <<>>,
                 FormatLine(UrlPool[1], ValuePool[2])>>)}

Idle == [op |-> "none", ds |-> "", entries |-> EmptyDict, reg |-> FALSE,
         outcome |-> "", repeat |-> FALSE]

UrlsOfFile(f) == IF f.exists THEN DOMAIN ParseFile(f.lines) ELSE {}

csInit ==
  /\ fs \in [AllPaths -> InitialFiles]
  /\ _REGISTER_CHECKSUMS = FALSE
  /\ _ALL_SIZE_CHECKSUMS = EmptyDict
  /\ dataset2pathMemo = NoMemo
  /\ sizesMemo = [p \in AllPaths |-> NoMemo]
  /\ allMemo = FALSE
  /\ recorded = [ds \in Datasets |-> UrlsOfFile(fs[PathOf(ds)])]
  /\ last = Idle

\* set_register_checksums(register)
set_register_checksums(register) ==
  /\ _REGISTER_CHECKSUMS' = register
  /\ last' = [Idle EXCEPT !.op = "set_register", !.reg = register]
  /\ UNCHANGED <<fs, _ALL_SIZE_CHECKSUMS, dataset2pathMemo, sizesMemo, allMemo,
                 recorded>>
  /\ UNCHANGED <<bVars, xVars>>

\* The developer creates an (empty) checksum file, as the error of _get_path
\* asks for.
CreateFile(p) ==
  /\ ~fs[p].exists
  /\ fs' = [fs EXCEPT ![p] = File(<<>>)]
  /\ last' = [Idle EXCEPT !.op = "create_file", !.ds = p[2]]
  /\ UNCHANGED <<_REGISTER_CHECKSUMS, _ALL_SIZE_CHECKSUMS, dataset2pathMemo,
                 sizesMemo, allMemo, recorded>>
  /\ UNCHANGED <<bVars, xVars>>

\* _get_path(dataset_name): the path the (memoized) scan gives the name, or
\* the AssertionError of lines 66-68.
_get_path(dataset_name) ==
  LET dataset2path == _get_dataset_to_path(dataset2pathMemo, fs)
  IN  /\ dataset2pathMemo' = Memo(dataset2path)
      /\ last' = [Idle EXCEPT !.op = "lookup", !.ds = dataset_name,
                    !.outcome = IF dataset_name \in DOMAIN dataset2path
                                THEN "found" ELSE "no_checksums_file"]
      /\ UNCHANGED <<fs, _REGISTER_CHECKSUMS, _ALL_SIZE_CHECKSUMS, sizesMemo,
                     allMemo, recorded>>
      /\ UNCHANGED <<bVars, xVars>>

\* The branch taken when the registration-mode check is left out.
StoreOutcomeUnguarded(found, original_data, new_data, register) ==
  IF ~found THEN "no_checksums_file"
  ELSE IF original_data = new_data THEN "noop"
  ELSE "written"

\* What a record call decides: the branch maybe_store_checksums takes.
StoreOutcome(found, original_data, new_data, register) ==
  IF ~found THEN "no_checksums_file"
  ELSE IF original_data = new_data THEN "noop"
  ELSE IF ~register THEN "not_registering"
  ELSE "written"

\* maybe_store_checksums(dataset_name, sizes_checksums)
maybe_store_checksums(dataset_name, sizes_checksums) ==
  LET dataset2path == _get_dataset_to_path(dataset2pathMemo, fs)
      found == dataset_name \in DOMAIN dataset2path
      path == IF found THEN dataset2path[dataset_name] ELSE PathOf(dataset_name)
      original_data == IF found THEN _get_sizes_checksums(sizesMemo, fs, path)
                       ELSE EmptyDict
      new_data == DictUpdate(original_data, sizes_checksums)
      outcome == StoreOutcome(found, original_data, new_data, _REGISTER_CHECKSUMS)
  IN  /\ dataset2pathMemo' = Memo(dataset2path)
      /\ sizesMemo' = IF found
                      THEN [sizesMemo EXCEPT ![path] = Memo(original_data)]
                      ELSE sizesMemo
      /\ IF outcome = "written"
         THEN /\ _ALL_SIZE_CHECKSUMS' = DictUpdate(_ALL_SIZE_CHECKSUMS, sizes_checksums)
              /\ fs' = [fs EXCEPT ![path] = File(FormatFile(fs[path].lines, new_data))]
         ELSE UNCHANGED <<_ALL_SIZE_CHECKSUMS, fs>>
      /\ recorded' = IF outcome \in {"written", "noop"} /\ _REGISTER_CHECKSUMS
                     THEN [recorded EXCEPT ![dataset_name] = @ \cup DOMAIN sizes_checksums]
                     ELSE recorded
      /\ last' = [op |-> "record", ds |-> dataset_name, entries |-> sizes_checksums,
                  reg |-> _REGISTER_CHECKSUMS, outcome |-> outcome,
                  repeat |-> /\ last.op = "record"
                             /\ last.ds = dataset_name
                             /\ last.entries = sizes_checksums
                             /\ last.reg /\ _REGISTER_CHECKSUMS
                             /\ last.outcome \in {"written", "noop"}
                             /\ outcome \in {"written", "noop"}]
      /\ UNCHANGED <<_REGISTER_CHECKSUMS, allMemo>>
      /\ UNCHANGED <<bVars, xVars>>

\* The loop of get_all_sizes_checksums over the files in `order`: it stops at
\* the first file that registers a URL with another tuple than the global dict.
RECURSIVE LoadAll(_, _, _, _)
LoadAll(order, all, memo, files) ==
  IF order = <<>> THEN [ok |-> TRUE, all |-> all, memo |-> memo]
  ELSE LET path == Head(order)
           data == _get_sizes_checksums(memo, files, path)
           memo2 == [memo EXCEPT ![path] = Memo(data)]
           clash == \E url \in DOMAIN data :
                      url \in DOMAIN all /\ all[url] # data[url]
       IN  IF clash THEN [ok |-> FALSE, all |-> all, memo |-> memo2]
           ELSE LoadAll(Tail(order), DictUpdate(all, data), memo2, files)

\* The orders in which dict.values() may list the paths.
Orders(S) ==
  {o \in [1..Cardinality(S) -> S] : \A i, j \in DOMAIN o : i # j => o[i] # o[j]}

\* get_all_sizes_checksums()
get_all_sizes_checksums ==
  IF allMemo
  THEN /\ last' = [Idle EXCEPT !.op = "load_all", !.outcome = "memoized"]
       /\ UNCHANGED <<fs, _REGISTER_CHECKSUMS, _ALL_SIZE_CHECKSUMS,
                      dataset2pathMemo, sizesMemo, allMemo, recorded>>
       /\ UNCHANGED <<bVars, xVars>>
  ELSE LET dataset2path == _get_dataset_to_path(dataset2pathMemo, fs)
           paths == {dataset2path[n] : n \in DOMAIN dataset2path}
       IN  \E order \in Orders(paths) :
             LET r == LoadAll(order, _ALL_SIZE_CHECKSUMS, sizesMemo, fs)
             IN  /\ dataset2pathMemo' = Memo(dataset2path)
                 /\ sizesMemo' = r.memo
                 /\ _ALL_SIZE_CHECKSUMS' = r.all
                 /\ allMemo' = r.ok
                 /\ last' = [Idle EXCEPT !.op = "load_all",
                               !.outcome = IF r.ok THEN "loaded" ELSE "conflict"]
                 /\ UNCHANGED <<fs, _REGISTER_CHECKSUMS, recorded>>
                 /\ UNCHANGED <<bVars, xVars>>


NewEntries == {d \in Dicts : Cardinality(DOMAIN d) \in 1..MaxNewEntries}

csNext ==
  \/ \E r \in BOOLEAN : set_register_checksums(r)
  \/ \E p \in AllPaths : CreateFile(p)
  \/ \E ds \in Datasets : _get_path(ds)
  \/ \E ds \in Datasets, e \in NewEntries : maybe_store_checksums(ds, e)
  \/ get_all_sizes_checksums


(***************************************************************************)
(* Part II.  The dataset builder (dataset_builder.py)                      *)
(***************************************************************************)

\* Bounds of the builder model.
NumBuilders == 2
NumVersions == 2
MaxRuns == 3

Builders == 1..NumBuilders

RECURSIVE SumUpTo(_, _)
SumUpTo(f, n) == IF n = 0 THEN 0 ELSE f[n] + SumUpTo(f, n - 1)

\* The number of download_and_prepare calls made so far, by all builders.
TotalRuns(r) == SumUpTo(r, NumBuilders)

\* Version v stands for the semantic version "v.0.0".
Versions == 1..NumVersions

FORCE_REDOWNLOAD == "FORCE_REDOWNLOAD"

REUSE_CACHE_IF_EXISTS == "REUSE_CACHE_IF_EXISTS"

REUSE_DATASET_IF_EXISTS == "REUSE_DATASET_IF_EXISTS"

GenerateModes == {FORCE_REDOWNLOAD, REUSE_CACHE_IF_EXISTS, REUSE_DATASET_IF_EXISTS}

\* splits_lib.Split.ALL, the reserved split name.
ALL == "all"

SplitInfo(name, num_shards) == [name |-> name, num_shards |-> num_shards]

\* What _split_generators may return: a list of SplitGenerators, each with
\* its split_info_list.  One generator per split, one generator shared by two
\* splits, and a list whose second generator targets the reserved split.
SplitGeneratorChoices ==
  { << <<SplitInfo("train", 2)>>, <<SplitInfo("test", 1)>> >>,
    << <<SplitInfo("train", 2), SplitInfo("test", 1)>> >>,
    << <<SplitInfo("train", 1)>>, <<SplitInfo(ALL, 1)>> >> }

\* Directories under builder_data_dir: one per version, and the temporary
\* directory of run r of builder b.
VersionDir(v) == <<"version", v, 0>>

IncompleteDir(b, r) == <<"incomplete", b, r>>

Dirs == {VersionDir(v) : v \in Versions}
          \cup {IncompleteDir(b, r) : b \in Builders, r \in 1..MaxRuns}

\* A directory: its shard files, whether it holds the metadata document, and
\* the run <<b, r>> that created it (<<0, 0>>: it was there from the start).
NoDir == [exists |-> FALSE, files |-> {}, info |-> FALSE, by |-> <<0, 0>>]

NewDir(b, r) == [exists |-> TRUE, files |-> {}, info |-> FALSE, by |-> <<b, r>>]

\* naming.filepaths_for_dataset_split: the shard files of a split, named by
\* (split, shard index, shard count), in ascending shard index.
filepaths_for_dataset_split(data_dir, split_info) ==
  [i \in 1..split_info.num_shards |->
     <<data_dir, <<split_info.name, i - 1, split_info.num_shards>>>>]

RECURSIVE Flatten(_)
Flatten(seqs) == IF seqs = <<>> THEN <<>> ELSE Head(seqs) \o Flatten(Tail(seqs))

AllSplitInfos(gens) == Flatten(gens)

\* The shard files a complete dataset of these generators holds.
AllShardFiles(gens) ==
  UNION {{<<s.name, i - 1, s.num_shards>> : i \in 1..s.num_shards} :
           s \in {AllSplitInfos(gens)[k] : k \in 1..Len(AllSplitInfos(gens))}}

\* The SplitDict of a complete dataset: split name -> num_shards.
RECURSIVE SplitDictAdd(_, _)
SplitDictAdd(sd, infos) ==
  IF infos = <<>> THEN sd
  ELSE SplitDictAdd(DictUpdate(sd, [n \in {Head(infos).name} |-> Head(infos).num_shards]),
                    Tail(infos))

HasReserved(gens) == \E k \in 1..Len(AllSplitInfos(gens)) : AllSplitInfos(gens)[k].name = ALL

CompleteDir(gens) ==
  [exists |-> TRUE, files |-> AllShardFiles(gens), info |-> TRUE, by |-> <<0, 0>>]

NoError == [kind |-> "none", versions |-> {}]

Resting == {"NOT_STARTED", "COMMITTED", "FAILED", "REUSED"}

\* DatasetBuilder._build_data_dir: the path of the declared version.
_build_data_dir(b) == VersionDir(version[b])

bInit ==
  /\ split_generators \in SplitGeneratorChoices
  /\ version \in [Builders -> Versions]
  /\ \E onDisk \in SUBSET Versions :
       /\ HasReserved(split_generators) => onDisk = {}
       /\ disk = [d \in Dirs |->
                    IF \E v \in onDisk : d = VersionDir(v)
                    THEN CompleteDir(split_generators) ELSE NoDir]
  /\ _data_dir = [b \in Builders |-> _build_data_dir(b)]
  /\ pc = [b \in Builders |-> "NOT_STARTED"]
  /\ run = [b \in Builders |-> 0]
  /\ mode = [b \in Builders |-> REUSE_DATASET_IF_EXISTS]
  /\ dl_manager = [b \in Builders |-> FALSE]
  /\ unit = [b \in Builders |-> 1]
  /\ split_dict = [b \in Builders |-> EmptyDict]
  /\ info_splits = [b \in Builders |->
                      IF disk[_data_dir[b]].exists
                      THEN SplitDictAdd(EmptyDict, AllSplitInfos(split_generators))
                      ELSE EmptyDict]
  /\ error = [b \in Builders |-> NoError]
  /\ asResult = [b \in Builders |-> "none"]

\* The outcome with the early return taken for the wrong download mode.
StartOutcomeWrongMode(data_exists, download_mode) ==
  IF data_exists /\ download_mode = REUSE_CACHE_IF_EXISTS THEN "REUSED"
  ELSE IF data_exists THEN "FAILED"
  ELSE "CHECKED"

\* The outcome with the overwrite error left out.
StartOutcomeNoOverwriteError(data_exists, download_mode) ==
  IF data_exists /\ download_mode = REUSE_DATASET_IF_EXISTS THEN "REUSED"
  ELSE "CHECKED"

\* Lines 191-209: the early return (192-195), the overwrite error (204-209),
\* or on to the generation.
StartOutcome(data_exists, download_mode) ==
  IF data_exists /\ download_mode = REUSE_DATASET_IF_EXISTS THEN "REUSED"
  ELSE IF data_exists THEN "FAILED"
  ELSE "CHECKED"

\* Lines 190-211 of download_and_prepare: the existence check, the early
\* return, the download manager, the overwrite error.
StartDownloadAndPrepare(b, download_mode) ==
  LET data_exists == disk[_data_dir[b]].exists
      outcome == StartOutcome(data_exists, download_mode)
  IN  /\ pc[b] \in Resting
      /\ TotalRuns(run) < MaxRuns
      /\ run' = [run EXCEPT ![b] = @ + 1]
      /\ mode' = [mode EXCEPT ![b] = download_mode]
      /\ asResult' = [asResult EXCEPT ![b] = "none"]
      /\ pc' = [pc EXCEPT ![b] = outcome]
      /\ dl_manager' = [dl_manager EXCEPT ![b] = (outcome # "REUSED")]
      /\ error' = [error EXCEPT ![b] =
                     IF outcome = "FAILED"
                     THEN [kind |-> "overwrite", versions |-> {version[b]}]
                     ELSE NoError]
      /\ UNCHANGED <<disk, split_generators, version, _data_dir, unit, split_dict,
                     info_splits>>
      /\ UNCHANGED <<csVars, xVars>>

\* Line 214 without line 217: the temporary directory is made and _data_dir
\* is left as it is.
AllocateTmpDirNoAssignment(b) ==
  /\ pc[b] = "CHECKED"
  /\ disk' = [disk EXCEPT ![IncompleteDir(b, run[b])] = NewDir(b, run[b])]
  /\ pc' = [pc EXCEPT ![b] = "TEMP_DIR_ALLOCATED"]
  /\ UNCHANGED <<split_generators, version, _data_dir, run, mode, dl_manager,
                 unit, split_dict, info_splits, error, asResult>>
  /\ UNCHANGED <<csVars, xVars>>

\* Line 214 and 217: incomplete_dir makes the temporary directory and
\* temporary_assignment points _data_dir at it.
AllocateTmpDir(b) ==
  LET tmp_data_dir == IncompleteDir(b, run[b])
  IN  /\ pc[b] = "CHECKED"
      /\ disk' = [disk EXCEPT ![tmp_data_dir] = NewDir(b, run[b])]
      /\ _data_dir' = [_data_dir EXCEPT ![b] = tmp_data_dir]
      /\ pc' = [pc EXCEPT ![b] = "TEMP_DIR_ALLOCATED"]
      /\ UNCHANGED <<split_generators, version, run, mode, dl_manager, unit,
                     split_dict, info_splits, error, asResult>>
      /\ UNCHANGED <<csVars, xVars>>

\* Lines 626-647 of _download_and_prepare: makedirs if missing, a fresh
\* SplitDict.
BeginGeneration(b) ==
  /\ pc[b] = "TEMP_DIR_ALLOCATED"
  /\ disk' = IF disk[_data_dir[b]].exists THEN disk
             ELSE [disk EXCEPT ![_data_dir[b]] = NewDir(b, run[b])]
  /\ split_dict' = [split_dict EXCEPT ![b] = EmptyDict]
  /\ unit' = [unit EXCEPT ![b] = 1]
  /\ pc' = [pc EXCEPT ![b] = "GENERATING"]
  /\ UNCHANGED <<split_generators, version, _data_dir, run, mode, dl_manager,
                 info_splits, error, asResult>>
  /\ UNCHANGED <<csVars, xVars>>

\* The file names built under the versioned directory itself.
_build_split_filenames_final(b, split_info_list) ==
  Flatten([k \in 1..Len(split_info_list) |->
             filepaths_for_dataset_split(_build_data_dir(b), split_info_list[k])])

\* The file names of the first split of the list only.
_build_split_filenames_first_split(b, split_info_list) ==
  filepaths_for_dataset_split(_data_dir[b], split_info_list[1])

\* _build_split_filenames: the files of the splits, under self._data_dir.
_build_split_filenames(b, split_info_list) ==
  Flatten([k \in 1..Len(split_info_list) |->
             filepaths_for_dataset_split(_data_dir[b], split_info_list[k])])

\* The disk after the files of `paths` (a sequence of <<dir, file>>) are
\* written by run r of builder b.
RECURSIVE WriteFiles(_, _, _, _)
WriteFiles(d, paths, b, r) ==
  IF paths = <<>> THEN d
  ELSE LET dir == Head(paths)[1]
           old == IF d[dir].exists THEN d[dir] ELSE NewDir(b, r)
       IN  WriteFiles([d EXCEPT ![dir] = [old EXCEPT !.files = @ \cup {Head(paths)[2]}]],
                      Tail(paths), b, r)

\* The exception leaves the two with-blocks of download_and_prepare:
\* temporary_assignment restores _data_dir and incomplete_dir leaves or
\* removes the temporary directory, which is never renamed.
Abort(b, kind, d, removed) ==
  /\ pc' = [pc EXCEPT ![b] = "FAILED"]
  /\ error' = [error EXCEPT ![b] = [kind |-> kind, versions |-> {}]]
  /\ _data_dir' = [_data_dir EXCEPT ![b] = _build_data_dir(b)]
  /\ disk' = IF removed THEN [d EXCEPT ![IncompleteDir(b, run[b])] = NoDir] ELSE d

\* Lines 626-648 when makedirs or _split_generators (the downloads) raises.
BeginGenerationRaises(b, removed) ==
  /\ pc[b] = "TEMP_DIR_ALLOCATED"
  /\ Abort(b, "split_generators", disk, removed)
  /\ UNCHANGED <<split_generators, version, run, mode, dl_manager, unit,
                 split_dict, info_splits, asResult>>
  /\ UNCHANGED <<csVars, xVars>>

\* The check of lines 651-656 left out: no split counts as reserved.
FirstReservedIgnored(split_info_list) == 0

\* The index of the first split of the list named ALL, or 0.
FirstReserved(split_info_list) ==
  IF \E k \in 1..Len(split_info_list) : split_info_list[k].name = ALL
  THEN CHOOSE k \in 1..Len(split_info_list) :
         /\ split_info_list[k].name = ALL
         /\ \A j \in 1..(k - 1) : split_info_list[j].name # ALL
  ELSE 0

\* Lines 648-667, one SplitGenerator whose splits are all allowed and whose
\* generator, encoder and writer do not raise: the splits are added to the
\* SplitDict and every output file is written.
GenerateUnit(b) ==
  /\ pc[b] = "GENERATING"
  /\ unit[b] <= Len(split_generators)
  /\ LET split_info_list == split_generators[unit[b]]
     IN  /\ FirstReserved(split_info_list) = 0
         /\ split_dict' = [split_dict EXCEPT ![b] = SplitDictAdd(@, split_info_list)]
         /\ disk' = WriteFiles(disk, _build_split_filenames(b, split_info_list),
                               b, run[b])
  /\ unit' = [unit EXCEPT ![b] = @ + 1]
  /\ UNCHANGED <<split_generators, version, _data_dir, pc, run, mode, dl_manager,
                 info_splits, error, asResult>>
  /\ UNCHANGED <<csVars, xVars>>

\* Lines 648-667 when _generate_examples, encode_example or the writer raises
\* after `done` of the output files are written.
GenerateUnitRaises(b, done, removed) ==
  /\ pc[b] = "GENERATING"
  /\ unit[b] <= Len(split_generators)
  /\ done >= 0
  /\ LET split_info_list == split_generators[unit[b]]
         output_files == _build_split_filenames(b, split_info_list)
     IN  /\ FirstReserved(split_info_list) = 0
         /\ done < Len(output_files)
         /\ split_dict' = [split_dict EXCEPT ![b] = SplitDictAdd(@, split_info_list)]
         /\ Abort(b, "generator", WriteFiles(disk, SubSeq(output_files, 1, done),
                                             b, run[b]), removed)
  /\ UNCHANGED <<split_generators, version, run, mode, dl_manager, unit,
                 info_splits, asResult>>
  /\ UNCHANGED <<csVars, xVars>>

\* Lines 650-656: a split of the list is named ALL: the splits before it are
\* added, then ValueError.
GenerateUnitReserved(b, removed) ==
  /\ pc[b] = "GENERATING"
  /\ unit[b] <= Len(split_generators)
  /\ LET split_info_list == split_generators[unit[b]]
         k == FirstReserved(split_info_list)
     IN  /\ k > 0
         /\ split_dict' = [split_dict EXCEPT ![b] =
                             SplitDictAdd(@, SubSeq(split_info_list, 1, k - 1))]
         /\ Abort(b, "reserved_split", disk, removed)
  /\ UNCHANGED <<split_generators, version, run, mode, dl_manager, unit,
                 info_splits, asResult>>
  /\ UNCHANGED <<csVars, xVars>>

\* _download_and_prepare returns and the with-blocks are left at once: the
\* statistics and the DatasetInfo are not written.
UpdateSplitsAndLeave(b) ==
  /\ pc[b] = "GENERATING"
  /\ unit[b] > Len(split_generators)
  /\ info_splits' = [info_splits EXCEPT ![b] = split_dict[b]]
  /\ pc' = [pc EXCEPT ![b] = "PROMOTING"]
  /\ UNCHANGED <<disk, split_generators, version, _data_dir, run, mode,
                 dl_manager, unit, split_dict, error, asResult>>
  /\ UNCHANGED <<csVars, xVars>>

\* Line 670: self.info.update_splits_if_different(split_dict).
UpdateSplits(b) ==
  /\ pc[b] = "GENERATING"
  /\ unit[b] > Len(split_generators)
  /\ info_splits' = [info_splits EXCEPT ![b] = split_dict[b]]
  /\ pc' = [pc EXCEPT ![b] = "FINALIZING"]
  /\ UNCHANGED <<disk, split_generators, version, _data_dir, run, mode,
                 dl_manager, unit, split_dict, error, asResult>>
  /\ UNCHANGED <<csVars, xVars>>

\* Lines 228-240: the statistics, size_in_bytes, and the DatasetInfo written
\* to self._data_dir.
WriteInfo(b) ==
  /\ pc[b] = "FINALIZING"
  /\ disk' = [disk EXCEPT ![_data_dir[b]] =
                [(IF @.exists THEN @ ELSE NewDir(b, run[b])) EXCEPT !.info = TRUE]]
  /\ pc' = [pc EXCEPT ![b] = "PROMOTING"]
  /\ UNCHANGED <<split_generators, version, _data_dir, run, mode, dl_manager,
                 unit, split_dict, info_splits, error, asResult>>
  /\ UNCHANGED <<csVars, xVars>>

\* Lines 228-240 when computing the statistics or writing the document raises.
WriteInfoRaises(b, removed) ==
  /\ pc[b] = "FINALIZING"
  /\ Abort(b, "io", disk, removed)
  /\ UNCHANGED <<split_generators, version, run, mode, dl_manager, unit,
                 split_dict, info_splits, asResult>>
  /\ UNCHANGED <<csVars, xVars>>

\* The two with-blocks exit normally: _data_dir is restored and the temporary
\* directory is renamed to the versioned directory.
Commit(b) ==
  LET tmp_data_dir == IncompleteDir(b, run[b])
      final == _build_data_dir(b)
  IN  /\ pc[b] = "PROMOTING"
      /\ ~disk[final].exists
      /\ disk' = [disk EXCEPT ![final] = disk[tmp_data_dir], ![tmp_data_dir] = NoDir]
      /\ _data_dir' = [_data_dir EXCEPT ![b] = final]
      /\ pc' = [pc EXCEPT ![b] = "COMMITTED"]
      /\ UNCHANGED <<split_generators, version, run, mode, dl_manager, unit,
                     split_dict, info_splits, error, asResult>>
      /\ UNCHANGED <<csVars, xVars>>

\* The rename finds the versioned directory already there: the storage
\* backend either replaces it as a whole or refuses, and then the call fails.
CommitOntoExisting(b, replaces, removed) ==
  LET tmp_data_dir == IncompleteDir(b, run[b])
      final == _build_data_dir(b)
  IN  /\ pc[b] = "PROMOTING"
      /\ disk[final].exists
      /\ IF replaces
         THEN /\ removed
              /\ disk' = [disk EXCEPT ![final] = disk[tmp_data_dir],
                                      ![tmp_data_dir] = NoDir]
              /\ _data_dir' = [_data_dir EXCEPT ![b] = final]
              /\ pc' = [pc EXCEPT ![b] = "COMMITTED"]
              /\ UNCHANGED error
         ELSE Abort(b, "rename", disk, removed)
      /\ UNCHANGED <<split_generators, version, run, mode, dl_manager, unit,
                     split_dict, info_splits, asResult>>
      /\ UNCHANGED <<csVars, xVars>>

\* The existence check made on the directory the error message names,
\* self._data_dir_root, which exists as soon as anything is under it.
DataFoundInRoot(b) == \E d \in Dirs : disk[d].exists

\* Line 277: tf.io.gfile.exists(self._data_dir).
DataFound(b) == disk[_data_dir[b]].exists

\* Lines 277-282 of as_dataset: the data-not-found error.
as_dataset(b) ==
  /\ pc[b] \in Resting
  /\ asResult' = [asResult EXCEPT ![b] = IF DataFound(b) THEN "ok" ELSE "not_found"]
  /\ UNCHANGED <<disk, split_generators, version, _data_dir, pc, run, mode,
                 dl_manager, unit, split_dict, info_splits, error>>
  /\ UNCHANGED <<csVars, xVars>>

BuilderStep(b) ==
  \/ \E m \in GenerateModes : StartDownloadAndPrepare(b, m)
  \/ AllocateTmpDir(b)
  \/ BeginGeneration(b)
  \/ \E removed \in BOOLEAN : BeginGenerationRaises(b, removed)
  \/ GenerateUnit(b)
  \/ \E done \in 0..Cardinality(AllShardFiles(split_generators)), removed \in BOOLEAN :
       GenerateUnitRaises(b, done, removed)
  \/ \E removed \in BOOLEAN : GenerateUnitReserved(b, removed)
  \/ UpdateSplits(b)
  \/ WriteInfo(b)
  \/ \E removed \in BOOLEAN : WriteInfoRaises(b, removed)
  \/ Commit(b)
  \/ \E replaces, removed \in BOOLEAN : CommitOntoExisting(b, replaces, removed)
  \/ as_dataset(b)

(***************************************************************************)
(* Part III.  generator_fn of GeneratorBasedBuilder._download_and_prepare  *)
(***************************************************************************)

\* Bounds of the generator model.
MaxExamples == 5
MaxCap == 3

\* Python's None, for an int-valued argument.
None == -1

\* Python truth value of an int or None.
Truthy(x) == x # None /\ x # 0

\* Line 640: max_examples_per_split and i >= max_examples_per_split.
CapReached(cap, idx) == Truthy(cap) /\ idx >= cap

\* A call of _download_and_prepare with some cap, on a split generator whose
\* _generate_examples yields num_examples examples.
gInit ==
  /\ max_examples_per_split \in {None} \cup 0..MaxCap
  /\ num_examples \in 0..MaxExamples
  /\ gen_i = 0
  /\ encoded = 0
  /\ gen_pc = "running"

\* Lines 636-642: the next example is encoded and yielded to the writer.
generator_fn_yield ==
  /\ gen_pc = "running"
  /\ gen_i < num_examples
  /\ ~CapReached(max_examples_per_split, gen_i)
  /\ encoded' = encoded + 1
  /\ gen_i' = gen_i + 1
  /\ UNCHANGED <<max_examples_per_split, num_examples, gen_pc>>
  /\ UNCHANGED <<csVars, bVars, kVars, rVars, wVars>>

\* Lines 640-641: break.
generator_fn_break ==
  /\ gen_pc = "running"
  /\ gen_i < num_examples
  /\ CapReached(max_examples_per_split, gen_i)
  /\ gen_pc' = "break"
  /\ UNCHANGED <<max_examples_per_split, num_examples, gen_i, encoded>>
  /\ UNCHANGED <<csVars, bVars, kVars, rVars, wVars>>

\* Line 636: _generate_examples is exhausted.
generator_fn_exhausted ==
  /\ gen_pc = "running"
  /\ gen_i = num_examples
  /\ gen_pc' = "exhausted"
  /\ UNCHANGED <<max_examples_per_split, num_examples, gen_i, encoded>>
  /\ UNCHANGED <<csVars, bVars, kVars, rVars, wVars>>

\* No generator is running.
gIdle ==
  /\ max_examples_per_split = None
  /\ num_examples = 0
  /\ gen_i = 0
  /\ encoded = 0
  /\ gen_pc = "exhausted"

(***************************************************************************)
(* Part IV.  DatasetBuilder.__init__: the config, the version, the path    *)
(***************************************************************************)

\* A BuilderConfig object.  id tells objects apart (`is`): the k-th element
\* of BUILDER_CONFIGS has id k, an object made by the caller has id 0.
\* A missing name or description is "", a missing version is None.
BuilderConfig(id, name, ver, description) ==
  [id |-> id, name |-> name, version |-> ver, description |-> description]

\* No BuilderConfig (Python None where a config is expected).
NoConfig == BuilderConfig(None, "", None, "")

\* The BUILDER_CONFIGS a dataset class may declare.
ConfigLists ==
  { <<>>,
    <<BuilderConfig(1, "c1", 1, "d")>>,
    <<BuilderConfig(1, "c1", 1, "d"), BuilderConfig(2, "c2", 2, "d")>>,
    <<BuilderConfig(1, "c1", 1, "d"), BuilderConfig(2, "c1", 2, "d")>>,
    <<BuilderConfig(1, "c1", None, "d")>>,
    <<BuilderConfig(1, "c1", 1, "")>>,
    <<BuilderConfig(1, "", 1, "d")>> }

\* The config argument: None, a str, or a BuilderConfig object.
ArgNone == [kind |-> "none", str |-> "", obj |-> NoConfig]

ArgStr(name) == [kind |-> "str", str |-> name, obj |-> NoConfig]

ArgObj(c) == [kind |-> "obj", str |-> "", obj |-> c]

\* BuilderConfig objects made by the caller.
CustomConfigs ==
  { BuilderConfig(0, "custom", 1, "d"),
    BuilderConfig(0, "custom", None, "d"),
    BuilderConfig(0, "custom", 1, ""),
    BuilderConfig(0, "", 1, "d"),
    BuilderConfig(0, "c1", 1, "d") }

ConfigArgs(configs) ==
  {ArgNone} \cup {ArgStr(n) : n \in {"", "c1", "zz"}}
    \cup {ArgObj(configs[k]) : k \in 1..Len(configs)}
    \cup {ArgObj(c) : c \in CustomConfigs}

\* builder_configs: the dict name -> config (a later config of the same name
\* replaces an earlier one), or the duplicate-names error.
builder_configs(configs) ==
  LET names == {configs[k].name : k \in 1..Len(configs)}
      config_dict == [n \in names |->
                        configs[CHOOSE k \in 1..Len(configs) :
                                  /\ configs[k].name = n
                                  /\ \A j \in (k + 1)..Len(configs) : configs[j].name # n]]
  IN  IF Cardinality(names) # Len(configs)
      THEN [error |-> "duplicate_names", dict |-> <<>>]
      ELSE [error |-> "none", dict |-> config_dict]

Returned(c) == [error |-> "none", builder_config |-> c]

Raised(kind) == [error |-> kind, builder_config |-> NoConfig]

\* Lines 474-490 of _create_builder_config, for a BuilderConfig object bc.
ValidateConfig(bc, configs) ==
  LET known == builder_configs(configs)
  IN  IF bc.name = "" THEN Raised("config_without_name")
      ELSE IF known.error # "none" THEN Raised(known.error)
      ELSE IF bc.name \notin DOMAIN known.dict THEN Returned(bc)
      ELSE IF bc.id # known.dict[bc.name].id THEN Raised("custom_config_named_as_available")
      ELSE IF bc.version = None THEN Raised("config_without_version")
      ELSE IF bc.description = "" THEN Raised("config_without_description")
      ELSE Returned(bc)

\* _create_builder_config(builder_config)
_create_builder_config(arg, configs) ==
  LET builder_config == IF arg.kind = "none" /\ configs # <<>>
                        THEN ArgObj(configs[1]) ELSE arg
  IN  IF builder_config.kind = "none" THEN Returned(NoConfig)
      ELSE IF builder_config.kind = "str"
      THEN IF builder_config.str = "" THEN Returned(NoConfig)
           ELSE LET known == builder_configs(configs)
                IN  IF known.error # "none" THEN Raised(known.error)
                    ELSE IF builder_config.str \notin DOMAIN known.dict
                    THEN Raised("config_not_found")
                    ELSE ValidateConfig(known.dict[builder_config.str], configs)
      ELSE ValidateConfig(builder_config.obj, configs)

\* A directory name: its leading dot-separated numbers and what follows
\* them: "1.0.0" has parts <<1, 0, 0>> and no rest.
DirName(parts, rest) == [parts |-> parts, rest |-> rest]

\* str(version), version v being the semantic version v.0.0.
VersionStr(v) == DirName(<<v, 0, 0>>, "")

\* utils.Version(dir_name): three numbers and nothing else, or ValueError.
IsVersionName(n) == Len(n.parts) = 3 /\ n.rest = ""

\* The order of versions: by major, then minor, then patch.
VersionLess(a, b) ==
  \/ a[1] < b[1]
  \/ a[1] = b[1] /\ a[2] < b[2]
  \/ a[1] = b[1] /\ a[2] = b[2] /\ a[3] < b[3]

\* The names a builder_data_dir may hold: versions, the marker of an
\* incomplete build, and something else.
DirNamePool ==
  {VersionStr(v) : v \in Versions}
    \cup { DirName(<<1, 2, 0>>, ""),
           DirName(<<1, 0, 0>>, "incompleteXYZ"),
           DirName(<<>>, "downloads") }

Listings ==
  {[exists |-> FALSE, names |-> {}]}
    \cup {[exists |-> TRUE, names |-> S] : S \in SUBSET DirNamePool}

\* _other_versions_on_disk with the except clause left out: a name that is
\* no version aborts.
_other_versions_on_disk_strict(dir) ==
  IF ~dir.exists THEN [error |-> "none", versions |-> {}]
  ELSE IF \E n \in dir.names : ~IsVersionName(n)
       THEN [error |-> "ValueError", versions |-> {}]
       ELSE [error |-> "none", versions |-> {n.parts : n \in dir.names}]

\* _other_versions_on_disk: the versions among the names of builder_data_dir;
\* names that are no version are passed over.
_other_versions_on_disk(dir) ==
  IF ~dir.exists THEN [error |-> "none", versions |-> {}]
  ELSE [error |-> "none",
        versions |-> {n.parts : n \in {m \in dir.names : IsVersionName(m)}}]

\* Lines 363-375: version_dirs[0][0] after sort(reverse=True) is the highest
\* version on disk; the warning names it when it is not the declared one.
WarnedVersions(version_dirs, ver) ==
  IF version_dirs = {} THEN {}
  ELSE LET other_version == CHOOSE o \in version_dirs :
                              \A w \in version_dirs \ {o} : VersionLess(w, o)
       IN  IF other_version # VersionStr(ver).parts THEN {other_version} ELSE {}

\* A path of up to four components; config is "" when there is none.
Path(root, dataset, config_name, version_name) ==
  [root |-> root, dataset |-> dataset, config |-> config_name, version |-> version_name]

NoPath == Path("", "", "", DirName(<<>>, ""))

\* Lines 341-346: root/name[/config name]/version.
version_data_dir(builder_config, ver) ==
  Path("data_dir_root", "name",
       IF builder_config # NoConfig THEN builder_config.name ELSE "",
       VersionStr(ver))

NotBuilt ==
  [status |-> "not_called", builder_config |-> NoConfig, version |-> None,
   data_dir |-> NoPath, warned |-> {}]

Failed(kind) == [NotBuilt EXCEPT !.status = kind]

\* Lines 146-156 of __init__ and _build_data_dir.
Construct(arg, configs, class_version, dir) ==
  LET created == _create_builder_config(arg, configs)
      bc == created.builder_config
      ver == IF bc # NoConfig /\ bc.version # None THEN bc.version ELSE class_version
      others == _other_versions_on_disk(dir)
  IN  IF created.error # "none" THEN Failed(created.error)
      ELSE IF bc = NoConfig /\ class_version = None THEN Failed("no_version")
      ELSE IF ver = None THEN Failed("invalid_version")
      ELSE IF others.error # "none" THEN Failed(others.error)
      ELSE [status |-> "ok", builder_config |-> bc, version |-> ver,
            data_dir |-> version_data_dir(bc, ver),
            warned |-> WarnedVersions(others.versions, ver)]

kInit ==
  /\ BUILDER_CONFIGS \in ConfigLists
  /\ VERSION \in {None} \cup Versions
  /\ config \in ConfigArgs(BUILDER_CONFIGS)
  /\ listing \in Listings
  /\ built = NotBuilt

\* DatasetBuilder.__init__(data_dir, config), up to line 156.
__init__ ==
  /\ built.status = "not_called"
  /\ built' = Construct(config, BUILDER_CONFIGS, VERSION, listing)
  /\ UNCHANGED <<BUILDER_CONFIGS, VERSION, config, listing>>
  /\ UNCHANGED <<csVars, bVars, gVars, rVars, wVars>>

\* No builder is being constructed.
kIdle ==
  /\ BUILDER_CONFIGS = <<>>
  /\ VERSION = 1
  /\ config = ArgNone
  /\ listing = [exists |-> FALSE, names |-> {}]
  /\ built = NotBuilt

(***************************************************************************)
(* Part V.  _slice_split_info_to_instruction_dicts                         *)
(***************************************************************************)

\* Bounds of the read model.
MaxSlices == 2
MaxRows == 2

\* The number of percents of a split.
PercentRows == 100

\* The percentages used as slice boundaries.
PercentPoints == {0, 1, 50, 99, 100}

\* slice values lo:hi with 0 <= lo < hi <= 100.
ValidSlices == {sl \in PercentPoints \X PercentPoints : sl[1] < sl[2]}

SlicedSplitInfo(split_info, slice_value) ==
  [split_info |-> split_info, slice_value |-> slice_value]

SlicedSplitInfos ==
  {SlicedSplitInfo(si, sl) :
     si \in {SplitInfo("train", 2), SplitInfo("test", 1)}, sl \in ValidSlices}

\* The mask of `rows` rows for the percentage window [lo, hi): row k is in
\* when floor(rows * lo / 100) <= k < floor(rows * hi / 100).
percent_range_to_mask(lo, hi, rows) ==
  [k \in 1..rows |-> /\ (rows * lo) \div 100 <= k - 1
                     /\ k - 1 < (rows * hi) \div 100]

\* splits_lib.slice_to_percent_mask(slice_value): called with the slice
\* alone, it gives one entry per percent of the split.
slice_to_percent_mask(slice_value) ==
  percent_range_to_mask(slice_value[1], slice_value[2], PercentRows)

\* The loop of lines 698-707 with the mask computed once, from the first
\* slice, and used for every slice.
_slice_split_info_to_instruction_dicts_one_mask(b, infos) ==
  Flatten([j \in 1..Len(infos) |->
             LET filepaths == _build_split_filenames(b, <<infos[j].split_info>>)
             IN  [k \in 1..Len(filepaths) |->
                    [filepath |-> filepaths[k],
                     mask |-> slice_to_percent_mask(infos[1].slice_value)]]])

\* The loop of lines 698-707 with the dict put in front of the list.
RECURSIVE _slice_split_info_to_instruction_dicts_prepending(_, _)
_slice_split_info_to_instruction_dicts_prepending(b, infos) ==
  IF infos = <<>> THEN <<>>
  ELSE LET sliced_split_info == Head(infos)
           filepaths == _build_split_filenames(b, <<sliced_split_info.split_info>>)
           rest == _slice_split_info_to_instruction_dicts_prepending(b, Tail(infos))
       IN  rest \o [k \in 1..Len(filepaths) |->
                      [filepath |-> filepaths[Len(filepaths) + 1 - k],
                       mask |-> slice_to_percent_mask(sliced_split_info.slice_value)]]

\* _slice_split_info_to_instruction_dicts(list_sliced_split_info)
RECURSIVE _slice_split_info_to_instruction_dicts(_, _)
_slice_split_info_to_instruction_dicts(b, infos) ==
  IF infos = <<>> THEN <<>>
  ELSE LET sliced_split_info == Head(infos)
           filepaths == _build_split_filenames(b, <<sliced_split_info.split_info>>)
       IN  [k \in 1..Len(filepaths) |->
              [filepath |-> filepaths[k],
               mask |-> slice_to_percent_mask(sliced_split_info.slice_value)]]
             \o _slice_split_info_to_instruction_dicts(b, Tail(infos))

NotCalled == [called |-> FALSE, dicts |-> <<>>]

rInit ==
  /\ list_sliced_split_info \in
       UNION {[1..n -> SlicedSplitInfos] : n \in 0..MaxSlices}
  /\ row_count \in 0..MaxRows \cup {PercentRows}
  /\ instruction_dicts = NotCalled

\* Lines 681-682 of _as_dataset: the instruction dicts of the resolved slices.
ResolveInstructionDicts(b) ==
  /\ ~instruction_dicts.called
  /\ instruction_dicts' =
       [called |-> TRUE,
        dicts |-> _slice_split_info_to_instruction_dicts(b, list_sliced_split_info)]
  /\ UNCHANGED <<list_sliced_split_info, row_count>>
  /\ UNCHANGED <<csVars, bVars, gVars, kVars, wVars>>

\* Nothing is being read.
rIdle ==
  /\ list_sliced_split_info = <<>>
  /\ row_count = 0
  /\ instruction_dicts = NotCalled

(***************************************************************************)
(* Part VI.  One generator shared between splits (lines 661-667)           *)
(***************************************************************************)

\* The most examples a shared generator yields.
MaxYield == 130

\* The split_info_list of a SplitGenerator given lists of names and of
\* num_shards: the example of the _split_generators docstring and smaller
\* ones.
SharedGeneratorChoices ==
  { <<SplitInfo("train", 10), SplitInfo("validation", 3)>>,
    <<SplitInfo("train", 2), SplitInfo("test", 1)>>,
    <<SplitInfo("train", 1), SplitInfo("test", 2)>>,
    <<SplitInfo("train", 1), SplitInfo("test", 1)>>,
    <<SplitInfo("train", 3)>> }

\* The loop of lines 648-667 reaches a SplitGenerator with several splits.
wInit ==
  /\ shared_split_info_list \in SharedGeneratorChoices
  /\ writer_files = <<>>
  /\ shard_examples = <<>>
  /\ yielded = 0
  /\ writer_pc = "call"

\* Lines 661-667: the files of all the splits of the SplitGenerator, in one
\* list, are handed to one write_from_generator call with one generator.
OpenWriter(b) ==
  /\ writer_pc = "call"
  /\ LET output_files == _build_split_filenames(b, shared_split_info_list)
     IN  /\ writer_files' = output_files
         /\ shard_examples' = [k \in 1..Len(output_files) |-> <<>>]
  /\ writer_pc' = "writing"
  /\ UNCHANGED <<shared_split_info_list, yielded>>
  /\ UNCHANGED <<csVars, bVars, gVars, kVars, rVars>>

\* The output file that receives the example of index i: the files take the
\* examples in turn, in the order of output_files.
ShardOf(i, files) == (i % Len(files)) + 1

\* write_from_generator: the next example generator_fn yields is written at
\* the end of its file.
write_from_generator_write ==
  /\ writer_pc = "writing"
  /\ yielded < MaxYield
  /\ shard_examples' =
       [shard_examples EXCEPT ![ShardOf(yielded, writer_files)] = Append(@, yielded)]
  /\ yielded' = yielded + 1
  /\ UNCHANGED <<shared_split_info_list, writer_files, writer_pc>>
  /\ UNCHANGED <<csVars, bVars, gVars, kVars, rVars>>

\* write_from_generator: generator_fn is exhausted, the files are closed.
write_from_generator_close ==
  /\ writer_pc = "writing"
  /\ writer_pc' = "done"
  /\ UNCHANGED <<shared_split_info_list, writer_files, shard_examples, yielded>>
  /\ UNCHANGED <<csVars, bVars, gVars, kVars, rVars>>

\* No shared generator is being written.
wIdle ==
  /\ shared_split_info_list = <<>>
  /\ writer_files = <<>>
  /\ shard_examples = <<>>
  /\ yielded = 0
  /\ writer_pc = "call"

\* The registry as it is when the process starts with no checksum file.
csIdle ==
  /\ fs = [p \in AllPaths |-> NoFile]
  /\ _REGISTER_CHECKSUMS = FALSE
  /\ _ALL_SIZE_CHECKSUMS = EmptyDict
  /\ dataset2pathMemo = NoMemo
  /\ sizesMemo = [p \in AllPaths |-> NoMemo]
  /\ allMemo = FALSE
  /\ recorded = [ds \in Datasets |-> {}]
  /\ last = Idle

\* No builder is at work: every builder is as constructed on an empty disk.
bIdle ==
  /\ split_generators = << <<SplitInfo("train", 2)>>, <<SplitInfo("test", 1)>> >>
  /\ version = [b \in Builders |-> 1]
  /\ disk = [d \in Dirs |-> NoDir]
  /\ _data_dir = [b \in Builders |-> _build_data_dir(b)]
  /\ pc = [b \in Builders |-> "NOT_STARTED"]
  /\ run = [b \in Builders |-> 0]
  /\ mode = [b \in Builders |-> REUSE_DATASET_IF_EXISTS]
  /\ dl_manager = [b \in Builders |-> FALSE]
  /\ unit = [b \in Builders |-> 1]
  /\ split_dict = [b \in Builders |-> EmptyDict]
  /\ info_splits = [b \in Builders |-> EmptyDict]
  /\ error = [b \in Builders |-> NoError]
  /\ asResult = [b \in Builders |-> "none"]

Init == csIdle /\ bInit /\ gIdle /\ kIdle /\ rIdle /\ wIdle

\* Any number of builders of the same dataset at work at once.
Next == \E b \in Builders : BuilderStep(b)

Spec == Init /\ [][Next]_vars

\* The registry at work, no builder running.
InitChecksums == csInit /\ bIdle /\ gIdle /\ kIdle /\ rIdle /\ wIdle

NextChecksums == csNext

SpecChecksums == InitChecksums /\ [][NextChecksums]_vars

\* One run of generator_fn.
InitGenerator == csIdle /\ bIdle /\ gInit /\ kIdle /\ rIdle /\ wIdle

NextGenerator ==
  \/ generator_fn_yield
  \/ generator_fn_break
  \/ generator_fn_exhausted

SpecGenerator == InitGenerator /\ [][NextGenerator]_vars

\* The construction of one builder.
InitConstruct == csIdle /\ bIdle /\ gIdle /\ kInit /\ rIdle /\ wIdle

NextConstruct == __init__

SpecConstruct == InitConstruct /\ [][NextConstruct]_vars

\* One resolution of read instructions.
InitRead == csIdle /\ bIdle /\ gIdle /\ kIdle /\ rInit /\ wIdle

NextRead == \E b \in Builders : ResolveInstructionDicts(b)

SpecRead == InitRead /\ [][NextRead]_vars

\* One write of a shared generator.
InitWrite == csIdle /\ bIdle /\ gIdle /\ kIdle /\ rIdle /\ wInit

NextWrite ==
  \/ \E b \in Builders : OpenWriter(b)
  \/ write_from_generator_write
  \/ write_from_generator_close

SpecWrite == InitWrite /\ [][NextWrite]_vars

(***************************************************************************)
(* Properties of the dataset builder                                       *)
(***************************************************************************)

\* A directory holds a complete dataset: every shard of every declared split
\* and the metadata document.
Complete(dir) ==
  /\ dir.exists
  /\ dir.info
  /\ dir.files = AllShardFiles(split_generators)

\* The positions between the allocation of the temporary directory and the
\* end of the call.
InBuild == {"TEMP_DIR_ALLOCATED", "GENERATING", "FINALIZING", "PROMOTING"}

\* C1: while a build runs its writes target the temporary directory, and in
\* every state each versioned directory either does not exist or holds a
\* complete dataset.
C1_FinalNeverPartial ==
  /\ \A b \in Builders : pc[b] \in InBuild => _data_dir[b] = IncompleteDir(b, run[b])
  /\ \A v \in Versions : disk[VersionDir(v)].exists => Complete(disk[VersionDir(v)])

\* C1 witness: a build has written some but not all of its files, they are in
\* its temporary directory, and its versioned directory does not exist.
C1_Witness ==
  \E b \in Builders :
    /\ pc[b] = "GENERATING"
    /\ disk[IncompleteDir(b, run[b])].files # {}
    /\ disk[IncompleteDir(b, run[b])].files # AllShardFiles(split_generators)
    /\ ~disk[VersionDir(version[b])].exists

\* The last call of builder b ended because the generator, the encoder or
\* the shard writer raised.
FailedByRaise(b) == pc[b] = "FAILED" /\ error[b].kind = "generator"

\* No other builder has called download_and_prepare.
RanAlone(b) == \A o \in Builders \ {b} : run[o] = 0

\* C2: after a build that ended because the generator, the encoder or the
\* writer raised, no versioned directory is the promoted temporary directory
\* of that run; and when the build ran alone its versioned directory does not
\* exist and as_dataset does not succeed.
C2_RaiseFailsWholeBuild ==
  \A b \in Builders :
    FailedByRaise(b) =>
      /\ \A v \in Versions : disk[VersionDir(v)].by # <<b, run[b]>>
      /\ RanAlone(b) =>
           /\ ~disk[VersionDir(version[b])].exists
           /\ asResult[b] # "ok"

\* C2 witness: a build that ran alone has failed on a raise of its generator
\* and as_dataset has then failed with data-not-found.
C2_Witness ==
  \E b \in Builders :
    /\ FailedByRaise(b)
    /\ RanAlone(b)
    /\ asResult[b] = "not_found"

\* Builder b makes the first step of a download_and_prepare call.
Starts(b) == run'[b] = run[b] + 1

\* C3: a call made with REUSE_DATASET_IF_EXISTS while the versioned directory
\* holds a complete dataset returns at once: no directory changes, no
\* download manager is made, and self.info.splits is as before.
C3_ReuseWritesNothing ==
  [][\A b \in Builders :
       (/\ Starts(b)
        /\ mode'[b] = REUSE_DATASET_IF_EXISTS
        /\ Complete(disk[VersionDir(version[b])]))
       => (/\ pc'[b] = "REUSED"
           /\ disk' = disk
           /\ ~dl_manager'[b]
           /\ info_splits' = info_splits
           /\ _data_dir' = _data_dir)]_vars

\* C3 witness: a call has returned by the reuse policy.
C3_Witness ==
  \E b \in Builders :
    /\ pc[b] = "REUSED"
    /\ mode[b] = REUSE_DATASET_IF_EXISTS
    /\ Complete(disk[VersionDir(version[b])])

\* C4 as stated: a call made while a complete dataset of another version than
\* the declared one is on disk fails with the overwrite error, which names
\* both versions.
C4_OtherVersionRefused ==
  [][\A b \in Builders : \A v \in Versions \ {version[b]} :
       (Starts(b) /\ Complete(disk[VersionDir(v)]))
       => (/\ pc'[b] = "FAILED"
           /\ error'[b].kind = "overwrite"
           /\ error'[b].versions = {version[b], v})]_vars

\* C4 amended: a call fails with the overwrite error exactly when the
\* directory of the declared version itself exists and the download mode is
\* not REUSE_DATASET_IF_EXISTS; the error names that one version; the call
\* then allocates nothing.
C4_SameVersionRefused ==
  [][\A b \in Builders :
       Starts(b) =>
         /\ (pc'[b] = "FAILED" /\ error'[b].kind = "overwrite")
              <=> (/\ disk[VersionDir(version[b])].exists
                   /\ mode'[b] # REUSE_DATASET_IF_EXISTS)
         /\ pc'[b] = "FAILED" => (error'[b].versions = {version[b]} /\ disk' = disk)]_vars

\* C4 witness: a call has failed with the overwrite error while the declared
\* version is on disk, and another call went on to generate while only
\* another version was on disk.
C4_Witness ==
  /\ \E b \in Builders :
       /\ pc[b] = "FAILED"
       /\ error[b].kind = "overwrite"
       /\ mode[b] # REUSE_DATASET_IF_EXISTS
  /\ \E b \in Builders : \E v \in Versions \ {version[b]} :
       /\ pc[b] \in InBuild
       /\ Complete(disk[VersionDir(v)])

\* C5 as stated: of the builders of one versioned directory at most one is
\* between the allocation of its temporary directory and its commit.
C5_OneBuilderAtATime ==
  \A b1, b2 \in Builders :
    (b1 # b2 /\ version[b1] = version[b2]) => ~(pc[b1] \in InBuild /\ pc[b2] \in InBuild)

\* C5 amended: a call that starts after another builder of the same versioned
\* directory has committed allocates nothing and generates nothing: it fails
\* at once or returns by the reuse policy.
C5_FailsFastAfterCommit ==
  [][\A b \in Builders :
       (/\ Starts(b)
        /\ \E o \in Builders \ {b} : version[o] = version[b] /\ pc[o] = "COMMITTED")
       => (pc'[b] \in {"FAILED", "REUSED"} /\ disk' = disk)]_vars

\* C5 witness: a builder has committed and a later call of another builder of
\* the same versioned directory has failed with the overwrite error.
C5_Witness ==
  \E b, o \in Builders :
    /\ b # o
    /\ version[o] = version[b]
    /\ pc[o] = "COMMITTED"
    /\ pc[b] = "FAILED"
    /\ error[b].kind = "overwrite"

(***************************************************************************)
(* Properties of the checksum registry                                     *)
(***************************************************************************)

\* The parsed content of the file of dataset ds as it is on disk.
OnDisk(files, ds) == ParseFile(files[PathOf(ds)].lines)

\* C6: content of a dataset's checksum file is never discarded: in every
\* state the file holds every URL it held at first and every URL recorded
\* since by a successful record call in registration mode.
C6_NeverDiscarded ==
  \A ds \in Datasets : recorded[ds] \subseteq UrlsOfFile(fs[PathOf(ds)])

\* C7: a record call made with registration mode off whose entries conflict
\* with or extend the content of the file on disk fails with an error and
\* leaves the file as it was.
C7_ConflictFailsWhenOff ==
  [][(/\ last'.op = "record"
      /\ ~last'.reg
      /\ fs[PathOf(last'.ds)].exists
      /\ DictUpdate(OnDisk(fs, last'.ds), last'.entries) # OnDisk(fs, last'.ds))
     => (/\ last'.outcome \in {"not_registering", "no_checksums_file"}
         /\ fs' = fs)]_csVars

\* C8: a record call whose entries add nothing to the content of the file on
\* disk is a no-op in either registration mode: it succeeds, writes no file
\* and changes neither the global dict nor the memoized content of the file.
C8_NoopWhenNothingNew ==
  [][(/\ last'.op = "record"
      /\ fs[PathOf(last'.ds)].exists
      /\ DictUpdate(OnDisk(fs, last'.ds), last'.entries) = OnDisk(fs, last'.ds))
     => (/\ last'.outcome = "noop"
         /\ fs' = fs
         /\ _ALL_SIZE_CHECKSUMS' = _ALL_SIZE_CHECKSUMS
         /\ _get_sizes_checksums(sizesMemo', fs', PathOf(last'.ds))
              = _get_sizes_checksums(sizesMemo, fs, PathOf(last'.ds)))]_csVars

\* C9: recording the same entries for the same dataset twice in a row, both
\* times in registration mode, leaves every checksum file after the second
\* record byte-identical to what it was after the first.
C9_SecondRecordIdentical ==
  [][(last'.op = "record" /\ last'.repeat) => fs' = fs]_csVars

\* C9 witness: the second of two identical records rewrote the file.
C9_Witness ==
  /\ last.op = "record"
  /\ last.repeat
  /\ last.outcome = "written"

StrictlyAscending(lines) ==
  \A j, k \in 1..Len(lines) : j < k => UrlLess(LineUrl(lines[j]), LineUrl(lines[k]))

\* C11: after a record call that wrote the file in registration mode, the
\* file holds exactly the entries that were on disk updated with the new
\* entries, one line per URL, in strictly ascending order of URL.
C11_FileIsUnionOfDiskAndNew ==
  [][(last'.op = "record" /\ last'.reg /\ last'.outcome = "written")
     => LET lines == fs'[PathOf(last'.ds)].lines
        IN  /\ ParseFile(lines) = DictUpdate(OnDisk(fs, last'.ds), last'.entries)
            /\ Len(lines) = Cardinality(DOMAIN ParseFile(lines))
            /\ StrictlyAscending(lines)]_csVars

\* Two datasets' checksum files register different tuples for one URL.
FilesConflict(files) ==
  \E d1, d2 \in Datasets :
    /\ d1 # d2
    /\ files[PathOf(d1)].exists /\ files[PathOf(d2)].exists
    /\ \E u \in DOMAIN OnDisk(files, d1) \cap DOMAIN OnDisk(files, d2) :
         OnDisk(files, d1)[u] # OnDisk(files, d2)[u]

\* The union of the entries of every checksum file (of files that agree).
UnionOfFiles(files) ==
  LET present == {ds \in Datasets : files[PathOf(ds)].exists}
  IN  [u \in UNION {DOMAIN OnDisk(files, ds) : ds \in present} |->
         OnDisk(files, CHOOSE ds \in present : u \in DOMAIN OnDisk(files, ds))[u]]

\* C12: a call of get_all_sizes_checksums fails if and only if two datasets'
\* checksum files register different tuples for the same URL, and otherwise
\* returns the union of the entries of every checksum file.
C12_LoadAllFailsIffConflict ==
  [][last'.op = "load_all"
     => /\ (last'.outcome = "conflict") <=> FilesConflict(fs)
        /\ ~FilesConflict(fs) => _ALL_SIZE_CHECKSUMS' = UnionOfFiles(fs)]_csVars

(***************************************************************************)
(* Properties of the generation and of the phases of a build               *)
(***************************************************************************)

\* The builder makes the step that raises the reserved-split error.
RaisesReserved(b) == pc[b] = "GENERATING" /\ error'[b].kind = "reserved_split"

\* The shard files of the first n split generators.
ShardFilesUpTo(n) == AllShardFiles(SubSeq(split_generators, 1, n))

\* C13 as stated: when the reserved-split error is raised the build has done
\* no I/O: no directory of this run exists and no shard has been written.
C13_ReservedFailsBeforeAnyIO ==
  [][\A b \in Builders :
       RaisesReserved(b) => \A d \in Dirs : disk[d].by # <<b, run[b]>>]_vars

\* C13 amended: a split generator that names the reserved split is never
\* generated: when the loop reaches it the call fails before a shard of that
\* generator is written, no file of the reserved split is ever on disk, the
\* reserved name is not added to the SplitDict and no versioned directory
\* changes; the temporary directory then holds the shards of the generators
\* listed before it.
C13_ReservedFailsAtItsUnit ==
  [][/\ \A d \in Dirs : \A f \in disk'[d].files : f[1] # ALL
     /\ \A b \in Builders :
          /\ (/\ pc[b] = "GENERATING"
              /\ unit[b] <= Len(split_generators)
              /\ FirstReserved(split_generators[unit[b]]) > 0)
             => unit'[b] = unit[b] /\ pc'[b] \in {"GENERATING", "FAILED"}
          /\ RaisesReserved(b)
             => /\ pc'[b] = "FAILED"
                /\ disk[IncompleteDir(b, run[b])].exists
                /\ disk[IncompleteDir(b, run[b])].files = ShardFilesUpTo(unit[b] - 1)
                /\ disk'[IncompleteDir(b, run[b])].files
                     \subseteq disk[IncompleteDir(b, run[b])].files
                /\ \A v \in Versions : disk'[VersionDir(v)] = disk[VersionDir(v)]
                /\ ALL \notin DOMAIN split_dict'[b]]_vars

\* C13 witness: a build has failed on the reserved split and its temporary
\* directory is there with the shards of the generator listed before.
C13_Witness ==
  \E b \in Builders :
    /\ pc[b] = "FAILED"
    /\ error[b].kind = "reserved_split"
    /\ disk[IncompleteDir(b, run[b])].exists
    /\ disk[IncompleteDir(b, run[b])].files # {}

\* The phase of the state machine a position of download_and_prepare is in.
Phase(p) ==
  IF p \in {"NOT_STARTED", "CHECKED", "REUSED"} THEN "NOT_STARTED"
  ELSE IF p = "PROMOTING" THEN "FINALIZING"
  ELSE p

PhaseSucc ==
  { <<"NOT_STARTED", "TEMP_DIR_ALLOCATED">>, <<"TEMP_DIR_ALLOCATED", "GENERATING">>,
    <<"GENERATING", "FINALIZING">>, <<"FINALIZING", "COMMITTED">> }

NonTerminal == {"NOT_STARTED", "TEMP_DIR_ALLOCATED", "GENERATING", "FINALIZING"}

\* In each non-terminal phase a step to FAILED is possible.
CanFail(b) ==
  /\ (pc[b] \in Resting /\ disk[_data_dir[b]].exists /\ TotalRuns(run) < MaxRuns)
       => ENABLED (StartDownloadAndPrepare(b, FORCE_REDOWNLOAD) /\ pc'[b] = "FAILED")
  /\ pc[b] = "TEMP_DIR_ALLOCATED" => ENABLED BeginGenerationRaises(b, TRUE)
  /\ (pc[b] = "GENERATING" /\ unit[b] <= Len(split_generators))
       => ENABLED (GenerateUnitRaises(b, 0, TRUE) \/ GenerateUnitReserved(b, TRUE))
  /\ pc[b] = "FINALIZING" => ENABLED WriteInfoRaises(b, TRUE)

\* C18: a call moves through NOT_STARTED, TEMP_DIR_ALLOCATED, GENERATING,
\* FINALIZING, COMMITTED in that order, one phase at a time and never back;
\* from each non-terminal phase it can fail; the metadata document is written
\* only in FINALIZING, after every split generator is done, into the
\* temporary directory, and the call commits only with the document written.
C18_PhasesInOrder ==
  /\ [](\A b \in Builders : CanFail(b))
  /\ [][\A b \in Builders :
          /\ IF Starts(b)
             THEN Phase(pc'[b]) \in {"NOT_STARTED", "FAILED"}
             ELSE \/ Phase(pc'[b]) = Phase(pc[b])
                  \/ <<Phase(pc[b]), Phase(pc'[b])>> \in PhaseSucc
                  \/ Phase(pc[b]) \in NonTerminal /\ Phase(pc'[b]) = "FAILED"
          /\ \A d \in Dirs :
               (disk'[d].by = <<b, run[b]>> /\ disk'[d].info /\ ~disk[d].info)
               => \/ /\ d = IncompleteDir(b, run[b])
                     /\ pc[b] = "FINALIZING"
                     /\ unit[b] > Len(split_generators)
                  \/ /\ d = VersionDir(version[b])
                     /\ pc[b] = "PROMOTING"
                     /\ disk[IncompleteDir(b, run[b])].info
          /\ (pc'[b] = "COMMITTED" /\ pc[b] # "COMMITTED")
             => /\ pc[b] = "PROMOTING"
                /\ disk[IncompleteDir(b, run[b])].info
                /\ disk'[VersionDir(version[b])].info]_vars

\* C18 witness: one call has gone through every phase and committed, and
\* another one has failed after its temporary directory was allocated.
C18_Witness ==
  \E b, o \in Builders :
    /\ pc[b] = "COMMITTED"
    /\ disk[VersionDir(version[b])].by = <<b, run[b]>>
    /\ pc[o] = "FAILED"
    /\ error[o].kind = "split_generators"

\* C14: with max_examples_per_split configured (any value other than None)
\* generator_fn hands no more than max_examples_per_split examples to the
\* shard writer.
C14_CapStopsGeneration ==
  max_examples_per_split # None => encoded <= max_examples_per_split

(***************************************************************************)
(* Properties of the construction of a builder                             *)
(***************************************************************************)

\* The versions on disk other than the declared one.
DifferentVersionsOnDisk(dir, ver) ==
  {n \in dir.names : IsVersionName(n) /\ n # VersionStr(ver)}

\* C15: whenever builder_data_dir holds a name that parses as a version
\* other than the declared one, the constructed builder has emitted the
\* version-conflict warning.
C15_WarnsOnAnyOtherVersion ==
  (built.status = "ok" /\ listing.exists
     /\ DifferentVersionsOnDisk(listing, built.version) # {})
  => built.warned # {}

\* The errors __init__ raises before it looks at the disk.
ConfigErrors ==
  {"duplicate_names", "config_not_found", "config_without_name",
   "custom_config_named_as_available", "config_without_version",
   "config_without_description", "no_version", "invalid_version"}

\* C16: _build_data_dir never aborts and changes nothing on disk: whatever
\* builder_data_dir holds, __init__ ends as it does when the directory is
\* absent, and the path of a constructed builder is
\* root/dataset_name[/config_name]/version.
C16_ResolveNeverAborts ==
  [][(built.status = "not_called" /\ built'.status # "not_called")
     => /\ listing' = listing
        /\ built'.status \in {"ok"} \cup ConfigErrors
        /\ built'.status
             = Construct(config, BUILDER_CONFIGS, VERSION,
                         [exists |-> FALSE, names |-> {}]).status
        /\ built'.status = "ok"
             => /\ built'.data_dir.root = "data_dir_root"
                /\ built'.data_dir.dataset = "name"
                /\ built'.data_dir.config = built'.builder_config.name
                /\ built'.data_dir.version = VersionStr(built'.version)]_vars

\* C16 witness: a builder with a config was constructed while its directory
\* held the marker of an incomplete build, another name that is no version,
\* and a version other than the declared one.
C16_Witness ==
  /\ built.status = "ok"
  /\ built.builder_config # NoConfig
  /\ \E n \in listing.names : Len(n.parts) = 3 /\ n.rest # ""
  /\ \E n \in listing.names : n.parts = <<>>
  /\ DifferentVersionsOnDisk(listing, built.version) # {}

\* BUILDER_CONFIGS holds two configs of one name.
HasDuplicateNames(configs) ==
  \E j, k \in 1..Len(configs) : j # k /\ configs[j].name = configs[k].name

\* C17: a builder is constructed only if a version is defined,
\* BUILDER_CONFIGS holds no duplicate names, and the config in use, predefined
\* or custom, has a name, a version and a description.
C17_ConfigErrorsAreFatal ==
  built.status = "ok"
  => /\ built.version # None
     /\ ~HasDuplicateNames(BUILDER_CONFIGS)
     /\ built.builder_config # NoConfig
          => /\ built.builder_config.name # ""
             /\ built.builder_config.version # None
             /\ built.builder_config.description # ""

(***************************************************************************)
(* Properties of the resolution of read instructions                       *)
(***************************************************************************)

\* The number of shard files of the first n slices of the list.
RECURSIVE ShardsOfFirst(_, _)
ShardsOfFirst(infos, n) ==
  IF n = 0 THEN 0
  ELSE ShardsOfFirst(infos, n - 1) + infos[n].split_info.num_shards

\* C19: the result holds one dict per shard file of each slice: the dicts of
\* the j-th slice follow those of the slices before it, name the shard files
\* of its split in ascending shard index under self._data_dir, and all carry
\* the mask of that slice.
C19_OneDictPerShardInOrder ==
  instruction_dicts.called
  => LET infos == list_sliced_split_info
         dicts == instruction_dicts.dicts
     IN  /\ Len(dicts) = ShardsOfFirst(infos, Len(infos))
         /\ \E b \in Builders :
              \A j \in 1..Len(infos) :
                \A n \in 1..infos[j].split_info.num_shards :
                  LET dict == dicts[ShardsOfFirst(infos, j - 1) + n]
                  IN  /\ dict.filepath[1] = _data_dir[b]
                      /\ dict.filepath[2] = <<infos[j].split_info.name, n - 1,
                                              infos[j].split_info.num_shards>>
                      /\ dict.mask = slice_to_percent_mask(infos[j].slice_value)

\* C19 witness: two slices of different splits and different ranges were
\* resolved, the first of a split of two shards: three dicts.
C19_Witness ==
  /\ instruction_dicts.called
  /\ Len(list_sliced_split_info) = 2
  /\ list_sliced_split_info[1].split_info.num_shards = 2
  /\ list_sliced_split_info[1].split_info # list_sliced_split_info[2].split_info
  /\ list_sliced_split_info[1].slice_value # list_sliced_split_info[2].slice_value
  /\ Len(instruction_dicts.dicts) = 3

\* The list holds two adjacent ranges [lo, mid) and [mid, hi) of one split.
AdjacentSlices(infos) ==
  /\ Len(infos) = 2
  /\ infos[1].split_info = infos[2].split_info
  /\ infos[1].slice_value[2] = infos[2].slice_value[1]

\* The masks of two adjacent ranges of a split, shard file by shard file, are
\* disjoint and their union is the mask of the whole range.
MasksPartition(infos, dicts) ==
  LET shards == infos[1].split_info.num_shards
      whole == slice_to_percent_mask(<<infos[1].slice_value[1], infos[2].slice_value[2]>>)
  IN  \A n \in 1..shards :
        LET m1 == dicts[n].mask
            m2 == dicts[shards + n].mask
        IN  /\ dicts[n].filepath = dicts[shards + n].filepath
            /\ Len(m1) = Len(whole) /\ Len(m2) = Len(whole)
            /\ \A k \in 1..Len(whole) :
                 /\ ~(m1[k] /\ m2[k])
                 /\ (m1[k] \/ m2[k]) <=> whole[k]
                 /\ (infos[1].slice_value[1] = 0 /\ infos[2].slice_value[2] = 100)
                      => (m1[k] \/ m2[k])

RECURSIVE SumLen(_, _)
SumLen(name, k) ==
  IF k = 0 THEN 0
  ELSE SumLen(name, k - 1)
         + (IF writer_files[k][2][1] = name THEN Len(shard_examples[k]) ELSE 0)

ExamplesOfSplit(name) == SumLen(name, Len(writer_files))

RECURSIVE TotalShards(_)
TotalShards(infos) ==
  IF infos = <<>> THEN 0 ELSE Head(infos).num_shards + TotalShards(Tail(infos))

\* The examples of a file are in the order the generator yielded them.
InYieldOrder(examples) ==
  \A j, k \in 1..Len(examples) : j < k => examples[j] < examples[k]

C22_LookupFailsIffNoFile ==
  [][\A ds \in Datasets :
       (last'.op = "lookup" /\ last'.ds = ds) =>
         /\ last'.outcome = "no_checksums_file" <=> ~fs[PathOf(ds)].exists
         /\ last'.outcome = "found" =>
              _get_dataset_to_path(dataset2pathMemo, fs)[ds] = PathOf(ds)]_vars

\* C22: the directories are scanned by the first lookup, record or load_all
\* of the process and never again.  The lookup that scans fails exactly when
\* no file <dataset_name>.txt exists in a checksum directory; every later
\* lookup gives the answer of that scan: it fails exactly when the file was
\* not there at the scan, also when it has been created since.  A lookup
\* that succeeds returns the path of a file <dataset_name>.txt that exists
\* directly in a configured checksum directory.
C22_LookupAnswersFromFirstScan ==
  [][/\ dataset2pathMemo.set => dataset2pathMemo' = dataset2pathMemo
     /\ \A ds \in Datasets :
          (last'.op = "lookup" /\ last'.ds = ds) =>
            /\ dataset2pathMemo'.set
            /\ ~dataset2pathMemo.set =>
                 (last'.outcome = "no_checksums_file" <=> ~fs[PathOf(ds)].exists)
            /\ dataset2pathMemo.set =>
                 (last'.outcome = "no_checksums_file"
                    <=> ds \notin DOMAIN dataset2pathMemo.val)
            /\ last'.outcome = "found" =>
                 LET path == _get_dataset_to_path(dataset2pathMemo, fs)[ds]
                 IN  /\ path = PathOf(ds)
                     /\ path[1] = _CHECKSUM_DIRS[1]
                     /\ fs[path].exists]_vars

\* A lookup has failed for a dataset whose file exists: it was created after
\* the scan.
C22_Witness ==
  /\ last.op = "lookup"
  /\ last.outcome = "no_checksums_file"
  /\ fs[PathOf(last.ds)].exists
  /\ dataset2pathMemo.set
  /\ last.ds \notin DOMAIN dataset2pathMemo.val

\* C25: a load_all call that directly follows a record call that wrote the
\* file in registration mode, the checksum files not disagreeing on any URL,
\* succeeds, and the dict it returns maps every URL of that record to the
\* value recorded, whether or not load_all had been called before the record.
C25_LoadAllSeesRecorded ==
  [][(/\ last.op = "record"
      /\ last.reg
      /\ last.outcome = "written"
      /\ ~FilesConflict(fs)
      /\ last'.op = "load_all")
     => (/\ last'.outcome # "conflict"
         /\ \A url \in DOMAIN last.entries :
              /\ url \in DOMAIN _ALL_SIZE_CHECKSUMS'
              /\ _ALL_SIZE_CHECKSUMS'[url] = last.entries[url])]_csVars

\* C26: a record call made with registration mode off whose entries would
\* change the (memoized) content of the dataset's file fails with the
\* registration-mode error, and a call that fails so leaves the global dict,
\* the registration flag, every file, and what the memoized readers return
\* (the parsed content of every checksum file, the scan of the directories,
\* load_all) as they were; a memo that was set is not touched.
C26_FailedRecordChangesNothing ==
  [][\A ds \in Datasets :
       (last'.op = "record" /\ last'.ds = ds /\ ~_REGISTER_CHECKSUMS) =>
         LET original_data == _get_sizes_checksums(sizesMemo, fs, PathOf(ds))
         IN  /\ (/\ ds \in DOMAIN _get_dataset_to_path(dataset2pathMemo, fs)
                 /\ DictUpdate(original_data, last'.entries) # original_data)
                => last'.outcome = "not_registering"
             /\ last'.outcome = "not_registering" =>
                  /\ _ALL_SIZE_CHECKSUMS' = _ALL_SIZE_CHECKSUMS
                  /\ _REGISTER_CHECKSUMS' = _REGISTER_CHECKSUMS
                  /\ fs' = fs
                  /\ allMemo' = allMemo
                  /\ _get_dataset_to_path(dataset2pathMemo', fs')
                       = _get_dataset_to_path(dataset2pathMemo, fs)
                  /\ \A p \in AllPaths :
                       /\ fs[p].exists =>
                            _get_sizes_checksums(sizesMemo', fs', p)
                              = _get_sizes_checksums(sizesMemo, fs, p)
                       /\ sizesMemo[p].set => sizesMemo'[p] = sizesMemo[p]]_csVars

\* A record call has failed because registration mode is off while the
\* global dict held entries and the content of the file was memoized.
C26_Witness ==
  /\ last.op = "record"
  /\ last.outcome = "not_registering"
  /\ ~_REGISTER_CHECKSUMS
  /\ _ALL_SIZE_CHECKSUMS # EmptyDict
  /\ sizesMemo[PathOf(last.ds)].set

(***************************************************************************)
(* Properties of as_dataset and of the entry of download_and_prepare       *)
(***************************************************************************)

\* The versioned directory of builder b was on disk from the start or is the
\* promoted temporary directory of a run of a builder of that version.
PutThereByABuild(b) ==
  LET dir == disk[_build_data_dir(b)]
  IN  \/ dir.by = <<0, 0>>
      \/ \E o \in Builders :
           /\ version[o] = version[b]
           /\ dir.by[1] = o
           /\ dir.by[2] \in 1..run[o]

\* The last call of builder b ended on an exception raised after the entry
\* checks, by the build itself.
BuildFailed(b) == pc[b] = "FAILED" /\ error[b].kind # "overwrite"

\* C23: as_dataset checks the versioned directory of the builder; when it
\* does not exist the call fails with the data-not-found error and changes
\* and reads nothing.  The directory exists only if it was there from the
\* start or a build has committed it, so the call fails in every state
\* before that; and it fails after a build of the builder has failed, no
\* other builder having run.
C23_AsDatasetFailsWithoutData ==
  [][\A b \in Builders :
       as_dataset(b) =>
         /\ _data_dir[b] = _build_data_dir(b)
         /\ ~disk[_build_data_dir(b)].exists =>
              /\ asResult'[b] = "not_found"
              /\ disk' = disk
              /\ info_splits' = info_splits
         /\ asResult'[b] = "ok" =>
              /\ disk[_build_data_dir(b)].exists
              /\ PutThereByABuild(b)
         /\ (BuildFailed(b) /\ RanAlone(b)) => asResult'[b] = "not_found"]_vars

\* as_dataset has failed for a builder that has not built yet and for one
\* whose build failed while writing the metadata.
C23_Witness ==
  \E b1, b2 \in Builders :
    /\ pc[b1] = "NOT_STARTED"
    /\ asResult[b1] = "not_found"
    /\ pc[b2] = "FAILED"
    /\ error[b2].kind = "io"
    /\ asResult[b2] = "not_found"

\* C24: a download_and_prepare call that finds the versioned directory on
\* disk and whose download mode is not REUSE_DATASET_IF_EXISTS raises the
\* overwrite error at once: no directory of the disk changes, the versioned
\* directory included, _data_dir stays the versioned path, and the
\* temporary directory of that call never exists.
C24_OverwriteRaisesBeforeAllocation ==
  [][\A b \in Builders :
       /\ (/\ Starts(b)
           /\ disk[_build_data_dir(b)].exists
           /\ mode'[b] # REUSE_DATASET_IF_EXISTS)
          => (/\ pc'[b] = "FAILED"
              /\ error'[b].kind = "overwrite"
              /\ disk' = disk
              /\ _data_dir' = _data_dir
              /\ \A r \in 1..MaxRuns : disk'[IncompleteDir(b, r)] = disk[IncompleteDir(b, r)])
       /\ (pc'[b] = "FAILED" /\ error'[b].kind = "overwrite")
          => ~disk'[IncompleteDir(b, run'[b])].exists]_vars

\* A call made with FORCE_REDOWNLOAD on a complete versioned directory has
\* raised the overwrite error; the directory is complete and the call has no
\* temporary directory.
C24_Witness ==
  \E b \in Builders :
    /\ pc[b] = "FAILED"
    /\ error[b].kind = "overwrite"
    /\ mode[b] = FORCE_REDOWNLOAD
    /\ Complete(disk[_build_data_dir(b)])
    /\ ~disk[IncompleteDir(b, run[b])].exists

====
